---- MODULE Spec2Model ----
(***************************************************************************)
(* Incident / SLA tracker: the incident service (app/services/             *)
(* incident_service.py), the SLA policy table (app/config.py) and the      *)
(* two periodic scans (app/tasks/sla_checker.py) over one shared           *)
(* database.  Time is counted in hours.                                    *)
(***************************************************************************)
EXTENDS Integers, Sequences, FiniteSets, TLC

\* ---------------------------------------------------------------- bounds
\* incidents ever created
MaxIncidents == 1
\* advances of the clock
MaxTicks == 1
\* executions of check_sla_breaches ever started
MaxRuns == 2
\* fields one update_incident request sets
MaxFields == 1
\* largest skip and largest limit offered to list_incidents
MaxSkip == 1
MaxLimit == 2
\* filters one list_incidents request gives
MaxFilters == 1
\* executions of check_approaching_deadlines ever started
MaxWarnRuns == 2

\* ------------------------------------------------------- optional values
\* A nullable column: <<>> is NULL / None, <<v>> is the value v.
None == <<>>

Some(v) == <<v>>

IsSet(x) == x # None

NoUser == "none"

Users == {"u1"}

Workers == {1, 2}

\* ------------------------------------------------------------ enumerations
\* IncidentStatus
IncidentStatuses == {"OPEN", "IN_PROGRESS", "RESOLVED", "CLOSED"}

\* IncidentPriority
IncidentPriorities == {"CRITICAL", "HIGH", "MEDIUM", "LOW"}

\* SLAStatus
SLAStatuses == {"ACTIVE", "PAUSED", "BREACHED", "MET"}

\* ------------------------------------------------------------- strings
\* A Python str is a sequence of one-character strings.
Str_critical == <<"c", "r", "i", "t", "i", "c", "a", "l">>

Str_high == <<"h", "i", "g", "h">>

Str_medium == <<"m", "e", "d", "i", "u", "m">>

Str_low == <<"l", "o", "w">>

\* IncidentPriority.X.value
PriorityValue(p) ==
    CASE p = "CRITICAL" -> Str_critical
      [] p = "HIGH" -> Str_high
      [] p = "MEDIUM" -> Str_medium
      [] p = "LOW" -> Str_low

\* the upper-case / lower-case pairs of the letters the model uses
CasePairs ==
    { <<"A", "a">>, <<"C", "c">>, <<"D", "d">>, <<"E", "e">>, <<"G", "g">>,
      <<"H", "h">>, <<"I", "i">>, <<"L", "l">>, <<"M", "m">>, <<"O", "o">>,
      <<"R", "r">>, <<"T", "t">>, <<"U", "u">>, <<"W", "w">>, <<"N", "n">> }

UpperChar(c) ==
    IF \E p \in CasePairs : p[2] = c
    THEN (CHOOSE p \in CasePairs : p[2] = c)[1]
    ELSE c

\* variant: the argument is compared as given, no case folding
LowerCharCaseSensitive(c) == c

LowerChar(c) ==
    IF \E p \in CasePairs : p[1] = c
    THEN (CHOOSE p \in CasePairs : p[1] = c)[2]
    ELSE c

\* str.lower()
lower(s) == [i \in DOMAIN s |-> LowerChar(s[i])]

\* ------------------------------------------------------------- settings
\* Settings(): the SLA defaults, in hours
DefaultSettings ==
    [ sla_critical_response |-> 1, sla_critical_resolution |-> 4,
      sla_high_response |-> 4, sla_high_resolution |-> 24,
      sla_medium_response |-> 8, sla_medium_resolution |-> 72,
      sla_low_response |-> 24, sla_low_resolution |-> 168 ]

\* Settings.get_sla_deadlines
get_sla_deadlines(self, priority) ==
    LET priority_lower == lower(priority) IN
    IF priority_lower = Str_critical
    THEN [ response_hours |-> self.sla_critical_response,
           resolution_hours |-> self.sla_critical_resolution ]
    ELSE IF priority_lower = Str_high
    THEN [ response_hours |-> self.sla_high_response,
           resolution_hours |-> self.sla_high_resolution ]
    ELSE IF priority_lower = Str_medium
    THEN [ response_hours |-> self.sla_medium_response,
           resolution_hours |-> self.sla_medium_resolution ]
    ELSE IF priority_lower = Str_low
    THEN [ response_hours |-> self.sla_low_response,
           resolution_hours |-> self.sla_low_resolution ]
    ELSE [ response_hours |-> self.sla_medium_response,
           resolution_hours |-> self.sla_medium_resolution ]

\* add_hours
add_hours(dt, hours) == dt + hours

\* ------------------------------------------------------------------ state
VARIABLES
    settings,       \* app.config.settings
    now,            \* the wall clock read by utc_now()
    ticks,          \* number of clock advances so far
    incidents,      \* committed rows of table incidents: id -> row
    slas,           \* committed rows of table slas: id -> row
    creating,       \* the session of a create_incident between flush and commit
    scan,           \* per worker: the session of a check_sla_breaches execution
    runs,           \* the result status of each check_sla_breaches execution
    notifications,  \* send_sla_breach_notification.delay() calls made so far
    lookup,         \* one get_sla_deadlines call: its argument and its result
    detected,       \* the rows each execution counted in breaches_detected
    reply,          \* the last service call that returned the not-found outcome
    warnings        \* per check_approaching_deadlines execution: its result
                    \* and its send_approaching_deadline_notification.delay() calls

vars == << settings, now, ticks, incidents, slas, creating, scan, runs,
           notifications, lookup, detected, reply, warnings >>

\* clock advances offered to the model, in hours
TickSteps == {4, 5}

\* utc_now
utc_now == now

\* Incident.sla: the SLA rows that reference incident i
SlasOf(rows, i) == { s \in DOMAIN rows : rows[s].incident_id = i }

\* the primary keys the model hands out
IncidentIds == 1..MaxIncidents

\* a fresh primary key (uuid4)
FreshId(rows) == CHOOSE k \in 1..(MaxIncidents + 1) : k \notin DOMAIN rows

\* Incident(...) as constructed by create_incident, column defaults applied
NewIncident(priority, reporter_id) ==
    [ status |-> "OPEN", priority |-> priority, reporter_id |-> reporter_id,
      assignee_id |-> NoUser, resolved_at |-> None, closed_at |-> None,
      deleted_at |-> None ]

\* variant: the two deadlines take each other's hours
NewSLASwapped(incident_id, t, sla_deadlines) ==
    [ incident_id |-> incident_id,
      response_deadline |-> add_hours(t, sla_deadlines.resolution_hours),
      resolution_deadline |-> add_hours(t, sla_deadlines.response_hours),
      status |-> "ACTIVE", response_at |-> None, paused_at |-> None,
      breach_notified_at |-> None ]

\* SLA(...) as constructed by create_incident, column defaults applied
NewSLA(incident_id, t, sla_deadlines) ==
    [ incident_id |-> incident_id,
      response_deadline |-> add_hours(t, sla_deadlines.response_hours),
      resolution_deadline |-> add_hours(t, sla_deadlines.resolution_hours),
      status |-> "ACTIVE", response_at |-> None, paused_at |-> None,
      breach_notified_at |-> None ]

\* the idle session of a scan worker
IdleScan ==
    [ pc |-> "idle", now |-> 0, results |-> {}, dirty |-> {}, run |-> 0,
      after |-> {} ]

Init ==
    /\ settings = DefaultSettings
    /\ now = 0
    /\ ticks = 0
    /\ incidents = << >>
    /\ slas = << >>
    /\ creating = None
    /\ scan = [w \in Workers |-> IdleScan]
    /\ runs = << >>
    /\ notifications = {}
    /\ lookup = None
    /\ detected = {}
    /\ reply = None
    /\ warnings = << >>

\* time passes
Tick ==
    /\ ticks < MaxTicks
    /\ \E d \in TickSteps : now' = now + d
    /\ ticks' = ticks + 1
    /\ UNCHANGED << settings, incidents, slas, creating, scan, runs,
                    notifications, lookup, detected, reply, warnings >>

\* ------------------------------------------------- IncidentService: create
\* create_incident up to and including db.flush(): the incident is in the
\* session's open transaction, invisible to every other session
CreateFlush ==
    /\ creating = None
    /\ Cardinality(DOMAIN incidents) < MaxIncidents
    /\ \E p \in IncidentPriorities, u \in Users :
          creating' = Some([ id |-> FreshId(incidents),
                             incident |-> NewIncident(p, u) ])
    /\ UNCHANGED << settings, now, ticks, incidents, slas, scan, runs,
                    notifications, lookup, detected, reply, warnings >>

\* the rows a commit of the create_incident transaction persists
CreateRows(inc_rows, sla_rows, c, t) ==
    LET sla_deadlines ==
            get_sla_deadlines(settings, PriorityValue(c.incident.priority))
        sid == FreshId(sla_rows)
    IN  [ incidents |-> [k \in DOMAIN inc_rows \cup {c.id} |->
                            IF k = c.id THEN c.incident ELSE inc_rows[k]],
          slas |-> [k \in DOMAIN sla_rows \cup {sid} |->
                            IF k = sid THEN NewSLA(c.id, t, sla_deadlines)
                            ELSE sla_rows[k]] ]

\* create_incident from the policy lookup to db.commit()
CreateCommit ==
    /\ creating # None
    /\ LET rows == CreateRows(incidents, slas, creating[1], utc_now) IN
          /\ incidents' = rows.incidents
          /\ slas' = rows.slas
    /\ creating' = None
    /\ UNCHANGED << settings, now, ticks, scan, runs, notifications, lookup,
                    detected, reply, warnings >>

\* variant: the flush is durable on its own (autocommit), the SLA is not
CrashRowsFlushDurable(inc_rows, c) ==
    [k \in DOMAIN inc_rows \cup {c.id} |->
        IF k = c.id THEN c.incident ELSE inc_rows[k]]

\* the rows that survive when the create_incident transaction is abandoned
\* after the flush (error or crash): the transaction is rolled back
CrashRows(inc_rows, c) == inc_rows

\* create_incident fails or the process dies between flush and commit
CreateCrash ==
    /\ creating # None
    /\ incidents' = CrashRows(incidents, creating[1])
    /\ creating' = None
    /\ UNCHANGED << settings, now, ticks, slas, scan, runs,
                    notifications, lookup, detected, reply, warnings >>

\* ------------------------------------------- IncidentService: read, update
\* variant: the lookup has no deleted_at condition
get_incidentWithDeleted(rows, incident_id) ==
    IF incident_id \in DOMAIN rows THEN Some(rows[incident_id]) ELSE None

\* get_incident: the row with this id that is not soft-deleted, else None
get_incident(rows, incident_id) ==
    IF incident_id \in DOMAIN rows /\ rows[incident_id].deleted_at = None
    THEN Some(rows[incident_id])
    ELSE None

\* the query parameters offered to list_incidents: skip, limit and at most
\* MaxFilters of the optional filters (None: the parameter is not given)
ListInputs ==
    { q \in [ skip : 0..MaxSkip, limit : 1..MaxLimit,
              status : {None} \cup { Some(v) : v \in IncidentStatuses },
              priority : {None} \cup { Some(v) : v \in IncidentPriorities },
              assignee_id : {None} \cup { Some(v) : v \in Users },
              reporter_id : {None} \cup { Some(v) : v \in Users } ] :
        Len(q.status) + Len(q.priority) + Len(q.assignee_id)
            + Len(q.reporter_id) <= MaxFilters }

\* variant: the base query has no deleted_at condition
ListMatchesDeleted(row, q) ==
    /\ IsSet(q.status) => row.status = q.status[1]
    /\ IsSet(q.priority) => row.priority = q.priority[1]
    /\ IsSet(q.assignee_id) => row.assignee_id = q.assignee_id[1]
    /\ IsSet(q.reporter_id) => row.reporter_id = q.reporter_id[1]

\* list_incidents: the WHERE clauses of the statement, for one row (the
\* search filter reads title and description, which the rows do not carry)
ListMatches(row, q) ==
    /\ row.deleted_at = None
    /\ IsSet(q.status) => row.status = q.status[1]
    /\ IsSet(q.priority) => row.priority = q.priority[1]
    /\ IsSet(q.assignee_id) => row.assignee_id = q.assignee_id[1]
    /\ IsSet(q.reporter_id) => row.reporter_id = q.reporter_id[1]

\* order_by(created_at.desc()): primary keys are handed out in creation
\* order, so the newest row is the one with the largest key
RECURSIVE NewestFirst(_)
NewestFirst(ids) ==
    IF ids = {} THEN << >>
    ELSE LET k == CHOOSE x \in ids : \A y \in ids : y <= x
         IN  <<k>> \o NewestFirst(ids \ {k})

\* list_incidents: (incidents, total)
list_incidents(rows, q) ==
    LET found == { i \in DOMAIN rows : ListMatches(rows[i], q) }
        ordered == NewestFirst(found)
        last == IF q.skip + q.limit < Len(ordered)
                THEN q.skip + q.limit ELSE Len(ordered)
    IN  [ incidents |-> SubSeq(ordered, q.skip + 1, last),
          total |-> Cardinality(found) ]

\* IncidentUpdate.model_dump(exclude_unset=True): a field is None when it is
\* not in the dump and <<v>> when it is; assignee_id may be an explicit null.
\* The requests offered to the model set at most MaxFields fields.
UpdateInputs ==
    { d \in [ status : {None} \cup { Some(v) : v \in IncidentStatuses },
              priority : {None} \cup { Some(v) : v \in IncidentPriorities },
              assignee_id : {None} \cup { Some(v) : v \in Users \cup {NoUser} } ] :
        Len(d.status) + Len(d.priority) + Len(d.assignee_id) <= MaxFields }

\* update_incident, the setattr loop over the dumped fields
ApplyUpdate(incident, update_data) ==
    [ incident EXCEPT
        !.status = IF IsSet(update_data.status)
                   THEN update_data.status[1] ELSE @,
        !.priority = IF IsSet(update_data.priority)
                     THEN update_data.priority[1] ELSE @,
        !.assignee_id = IF IsSet(update_data.assignee_id)
                        THEN update_data.assignee_id[1] ELSE @ ]

\* update_incident on a found incident (not found: returns None, no write)
update_incident(incident_id, incident_data) ==
    /\ IsSet(get_incident(incidents, incident_id))
    /\ incidents' = [incidents EXCEPT
                        ![incident_id] = ApplyUpdate(@, incident_data)]
    /\ UNCHANGED << settings, now, ticks, slas, creating, scan, runs,
                    notifications, lookup, detected, reply, warnings >>

\* variant: every assignment moves the incident to IN_PROGRESS
ApplyAssignAlwaysInProgress(incident, assignee_id) ==
    [ incident EXCEPT !.assignee_id = assignee_id, !.status = "IN_PROGRESS" ]

\* assign_incident, the mutation of the loaded row
ApplyAssign(incident, assignee_id) ==
    [ incident EXCEPT
        !.assignee_id = assignee_id,
        !.status = IF @ = "OPEN" THEN "IN_PROGRESS" ELSE @ ]

\* assign_incident on a found incident (not found: returns None, no write)
assign_incident(incident_id, assignee_id) ==
    /\ IsSet(get_incident(incidents, incident_id))
    /\ incidents' = [incidents EXCEPT
                        ![incident_id] = ApplyAssign(@, assignee_id)]
    /\ UNCHANGED << settings, now, ticks, slas, creating, scan, runs,
                    notifications, lookup, detected, reply, warnings >>

\* variant: the branch does not test resolved_at
ResolvingUnguarded(incident, status) == status = "RESOLVED"

\* update_status: does the call enter the "if resolving" branch
Resolving(incident, status) ==
    status = "RESOLVED" /\ ~IsSet(incident.resolved_at)

\* update_status: does the call enter the "if closing" branch
Closing(incident, status) ==
    status = "CLOSED" /\ ~IsSet(incident.closed_at)

\* variant: a status other than RESOLVED clears resolved_at (reopening)
ApplyStatusReopenClears(incident, status, t) ==
    [ incident EXCEPT
        !.status = status,
        !.resolved_at = IF status = "RESOLVED"
                        THEN (IF IsSet(@) THEN @ ELSE Some(t))
                        ELSE None,
        !.closed_at = IF status = "CLOSED" /\ ~IsSet(@) THEN Some(t) ELSE @ ]

\* update_status, the mutation of the loaded incident row
ApplyStatus(incident, status, t) ==
    [ incident EXCEPT
        !.status = status,
        !.resolved_at = IF Resolving(incident, status) THEN Some(t) ELSE @,
        !.closed_at = IF Closing(incident, status) THEN Some(t) ELSE @ ]

\* variant: the SLA is set to MET on every write of RESOLVED
ApplySlaStatusEveryTime(sla, incident, status, t) ==
    IF status = "RESOLVED" THEN [sla EXCEPT !.status = "MET"] ELSE sla

\* variant: resolving also stops the clock by moving the resolution deadline
ApplySlaStatusStopsClock(sla, incident, status, t) ==
    IF status = "RESOLVED" /\ ~IsSet(incident.resolved_at)
    THEN [sla EXCEPT !.status = "MET", !.resolution_deadline = t]
    ELSE sla

\* variant: resolving leaves the SLA as it is
ApplySlaStatusNever(sla, incident, status, t) == sla

\* update_status, the mutation of incident.sla
ApplySlaStatus(sla, incident, status, t) ==
    IF Resolving(incident, status)
    THEN [sla EXCEPT !.status = "MET"]
    ELSE sla

\* update_status on a found incident (not found: returns None, no write)
update_status(incident_id, status) ==
    /\ IsSet(get_incident(incidents, incident_id))
    /\ incidents' = [incidents EXCEPT
                        ![incident_id] = ApplyStatus(@, status, utc_now)]
    /\ slas' = [s \in DOMAIN slas |->
                   IF s \in SlasOf(slas, incident_id)
                   THEN ApplySlaStatus(slas[s], incidents[incident_id],
                                       status, utc_now)
                   ELSE slas[s]]
    /\ UNCHANGED << settings, now, ticks, creating, scan, runs,
                    notifications, lookup, detected, reply, warnings >>

\* delete_incident on a found incident (not found: returns False, no write)
delete_incident(incident_id) ==
    /\ IsSet(get_incident(incidents, incident_id))
    /\ incidents' = [incidents EXCEPT
                        ![incident_id].deleted_at = Some(utc_now)]
    /\ UNCHANGED << settings, now, ticks, slas, creating, scan, runs,
                    notifications, lookup, detected, reply, warnings >>

\* the service operations that take an incident id
ServiceOps ==
    { "get_incident", "update_incident", "assign_incident", "update_status",
      "delete_incident" }

\* the ids a caller may ask for: those handed out and one never handed out
RequestIds == 1..(MaxIncidents + 1)

\* what an operation returns when get_incident finds nothing
NotFoundOutcome(op) == IF op = "delete_incident" THEN "False" ELSE "None"

\* a service operation whose lookup finds nothing: the early return
NotFound(op, incident_id) ==
    /\ ~IsSet(get_incident(incidents, incident_id))
    /\ reply' = Some([ op |-> op, incident_id |-> incident_id,
                       outcome |-> NotFoundOutcome(op) ])
    /\ UNCHANGED << settings, now, ticks, incidents, slas, creating, scan,
                    runs, notifications, lookup, detected, warnings >>

\* ------------------------------------------------------ check_sla_breaches
\* variant: the query does not look at the SLA status
BreachSelectedAnyStatus(sla, incident, t) ==
    /\ \/ (sla.response_at = None /\ sla.response_deadline < t)
       \/ (sla.resolution_deadline < t /\ incident.resolved_at = None)
    /\ sla.breach_notified_at = None

\* variant: the query has the resolution-deadline condition only
BreachSelectedResolutionOnly(sla, incident, t) ==
    /\ sla.status = "ACTIVE"
    /\ sla.resolution_deadline < t /\ incident.resolved_at = None
    /\ sla.breach_notified_at = None

\* variant: a deadline equal to the clock reading counts as passed
BreachSelectedAtDeadline(sla, incident, t) ==
    /\ sla.status = "ACTIVE"
    /\ \/ (sla.response_at = None /\ sla.response_deadline <= t)
       \/ (sla.resolution_deadline <= t /\ incident.resolved_at = None)
    /\ sla.breach_notified_at = None

\* the WHERE clause of the breach query, for one joined (SLA, Incident) row
BreachSelected(sla, incident, t) ==
    /\ sla.status = "ACTIVE"
    /\ \/ (sla.response_at = None /\ sla.response_deadline < t)
       \/ (sla.resolution_deadline < t /\ incident.resolved_at = None)
    /\ sla.breach_notified_at = None

\* session.execute(stmt).all(): the joined rows, the assignee outer-joined
BreachResults(sla_rows, inc_rows, t) ==
    { [ sla |-> s, incident |-> sla_rows[s].incident_id,
        assignee |-> inc_rows[sla_rows[s].incident_id].assignee_id,
        response_at |-> sla_rows[s].response_at ] :
      s \in { x \in DOMAIN sla_rows :
                /\ sla_rows[x].incident_id \in DOMAIN inc_rows
                /\ BreachSelected(sla_rows[x],
                                  inc_rows[sla_rows[x].incident_id], t) } }

\* check_sla_breaches starts on the first free worker: reads the clock and
\* runs the query
ScanBegin(w) ==
    /\ scan[w].pc = "idle"
    /\ \A v \in Workers : v < w => scan[v].pc # "idle"
    /\ Len(runs) < MaxRuns
    /\ runs' = Append(runs, "running")
    /\ scan' = [scan EXCEPT ![w] =
                  [ pc |-> "loop", now |-> utc_now,
                    results |-> BreachResults(slas, incidents, utc_now),
                    dirty |-> {}, run |-> Len(runs) + 1,
                    after |-> { r \in DOMAIN runs : runs[r] = "success" } ]]
    /\ UNCHANGED << settings, now, ticks, incidents, slas, creating,
                    notifications, lookup, detected, reply, warnings >>

\* variant: the test of response_at has lost its "not"
BreachTypeInverted(response_at) ==
    IF IsSet(response_at) THEN "Response" ELSE "Resolution"

\* "Response" if not sla.response_at else "Resolution"
BreachType(response_at) ==
    IF ~IsSet(response_at) THEN "Response" ELSE "Resolution"

\* variant: the notification is sent whether or not there is an assignee
BreachSendsAlways(r, run) ==
    { [ kind |-> "BREACH", incident |-> r.incident,
        breach_type |-> IF ~IsSet(r.response_at) THEN "Response"
                        ELSE "Resolution",
        run |-> run ] }

\* the send_sla_breach_notification.delay() calls of one loop iteration
BreachSends(r, run) ==
    IF r.assignee # NoUser
    THEN { [ kind |-> "BREACH", incident |-> r.incident,
             breach_type |-> BreachType(r.response_at), run |-> run ] }
    ELSE {}

\* breaches_detected += 1: the row one loop iteration of execution run counts
Detected(r, run) ==
    [ run |-> run, sla |-> r.sla, incident |-> r.incident,
      assignee |-> r.assignee ]

\* one iteration of the for loop: mark the loaded SLA, send the notification
ScanStep(w) ==
    /\ scan[w].pc = "loop"
    /\ \E r \in scan[w].results :
          /\ scan' = [scan EXCEPT ![w].results = @ \ {r},
                                  ![w].dirty = @ \cup {r.sla}]
          /\ detected' = detected \cup {Detected(r, scan[w].run)}
          /\ notifications' = notifications \cup BreachSends(r, scan[w].run)
    /\ UNCHANGED << settings, now, ticks, incidents, slas, creating, runs,
                    lookup, reply, warnings >>

\* variant: the marks of the loop are never written back
MarkBreachedNotPersisted(sla, t) == sla

\* the UPDATE that session.commit() flushes for one SLA the loop has marked
MarkBreached(sla, t) ==
    [sla EXCEPT !.status = "BREACHED", !.breach_notified_at = Some(t)]

\* session.commit() after the loop, and the success result
ScanCommit(w) ==
    /\ scan[w].pc = "loop"
    /\ scan[w].results = {}
    /\ slas' = [s \in DOMAIN slas |->
                   IF s \in scan[w].dirty
                   THEN MarkBreached(slas[s], scan[w].now)
                   ELSE slas[s]]
    /\ runs' = [runs EXCEPT ![scan[w].run] = "success"]
    /\ scan' = [scan EXCEPT ![w] = IdleScan]
    /\ UNCHANGED << settings, now, ticks, incidents, creating, notifications,
                    lookup, detected, reply, warnings >>

\* the dict a successful execution returns, from what the loop has counted
ScanResult(rows, notes, run) ==
    [ status |-> "success",
      breaches_detected |-> Cardinality({ d \in rows : d.run = run }),
      notifications_sent |->
          Cardinality({ n \in notes : n.kind = "BREACH" /\ n.run = run }) ]

\* an exception inside the try block (a .delay() or the commit raises): the
\* session is rolled back, the sends already made stay made
ScanFail(w) ==
    /\ scan[w].pc = "loop"
    /\ runs' = [runs EXCEPT ![scan[w].run] = "error"]
    /\ scan' = [scan EXCEPT ![w] = IdleScan]
    /\ UNCHANGED << settings, now, ticks, incidents, slas, creating,
                    notifications, lookup, detected, reply, warnings >>

\* --------------------------------------------- check_approaching_deadlines
\* timedelta(hours=h).total_seconds()
Seconds(h) == h * 3600

\* seconds past the whole hour at which a warning scan may read the clock
WarnSeconds == {0, 1, 3599}

\* variant: a deadline equal to the clock reading is still approaching
WarningSelectedAtDeadline(sla, incident, t) ==
    /\ sla.status = "ACTIVE"
    /\ incident.resolved_at = None
    /\ \/ /\ incident.priority \in {"CRITICAL", "HIGH"}
          /\ Seconds(sla.resolution_deadline) >= t
          /\ Seconds(sla.resolution_deadline) <= t + Seconds(1)
       \/ /\ incident.priority \in {"MEDIUM", "LOW"}
          /\ Seconds(sla.resolution_deadline) >= t
          /\ Seconds(sla.resolution_deadline) <= t + Seconds(4)

\* the WHERE clause of the warning query, for one joined (SLA, Incident)
\* row; t is the clock reading in seconds
WarningSelected(sla, incident, t) ==
    /\ sla.status = "ACTIVE"
    /\ incident.resolved_at = None
    /\ \/ /\ incident.priority \in {"CRITICAL", "HIGH"}
          /\ Seconds(sla.resolution_deadline) > t
          /\ Seconds(sla.resolution_deadline) <= t + Seconds(1)
       \/ /\ incident.priority \in {"MEDIUM", "LOW"}
          /\ Seconds(sla.resolution_deadline) > t
          /\ Seconds(sla.resolution_deadline) <= t + Seconds(4)

\* session.execute(stmt).all(): the joined rows, the assignee outer-joined
WarningResults(sla_rows, inc_rows, t) ==
    { [ sla |-> s, incident |-> sla_rows[s].incident_id,
        assignee |-> inc_rows[sla_rows[s].incident_id].assignee_id,
        resolution_deadline |-> sla_rows[s].resolution_deadline ] :
      s \in { x \in DOMAIN sla_rows :
                /\ sla_rows[x].incident_id \in DOMAIN inc_rows
                /\ WarningSelected(sla_rows[x],
                                   inc_rows[sla_rows[x].incident_id], t) } }

\* int((sla.resolution_deadline - now).total_seconds() // 60)
time_remaining_minutes(resolution_deadline, t) ==
    (Seconds(resolution_deadline) - t) \div 60

\* variant: an incident warned by an earlier execution is not warned again
WarningSendsOnce(results, t) ==
    { [ incident |-> r.incident,
        time_remaining_minutes |->
            time_remaining_minutes(r.resolution_deadline, t) ] :
      r \in { x \in results :
                /\ x.assignee # NoUser
                /\ \A k \in DOMAIN warnings : \A y \in warnings[k].sent :
                      y.incident # x.incident } }

\* the send_approaching_deadline_notification.delay() calls of the loop
WarningSends(results, t) ==
    { [ incident |-> r.incident,
        time_remaining_minutes |->
            time_remaining_minutes(r.resolution_deadline, t) ] :
      r \in { x \in results : x.assignee # NoUser } }

\* check_approaching_deadlines, a whole execution that returns success: it
\* reads the clock sec seconds past the hour, runs the query and the loop
check_approaching_deadlines(sec) ==
    /\ Len(warnings) < MaxWarnRuns
    /\ LET t == Seconds(utc_now) + sec IN
          warnings' = Append(warnings,
              [ status |-> "success", now |-> t,
                sent |-> WarningSends(WarningResults(slas, incidents, t), t) ])
    /\ UNCHANGED << settings, now, ticks, incidents, slas, creating, scan,
                    runs, notifications, lookup, detected, reply >>

\* check_approaching_deadlines, an execution in which a .delay() raises:
\* the sends made before it stay made, the result is the error dict
WarningScanFail(sec) ==
    /\ Len(warnings) < MaxWarnRuns
    /\ LET t == Seconds(utc_now) + sec
           all == WarningSends(WarningResults(slas, incidents, t), t)
       IN  /\ all # {}
           /\ \E made \in SUBSET all :
                 /\ made # all
                 /\ warnings' = Append(warnings,
                        [ status |-> "error", now |-> t, sent |-> made ])
    /\ UNCHANGED << settings, now, ticks, incidents, slas, creating, scan,
                    runs, notifications, lookup, detected, reply >>

\* ------------------------------------------------------------ specification
Next ==
    \/ Tick
    \/ CreateFlush
    \/ CreateCommit
    \/ CreateCrash
    \/ \E i \in IncidentIds, d \in UpdateInputs : update_incident(i, d)
    \/ \E i \in IncidentIds, u \in Users : assign_incident(i, u)
    \/ \E i \in IncidentIds, st \in IncidentStatuses : update_status(i, st)
    \/ \E i \in IncidentIds : delete_incident(i)
    \/ \E w \in Workers : ScanBegin(w)
    \/ \E w \in Workers : ScanStep(w)
    \/ \E w \in Workers : ScanCommit(w)
    \/ \E w \in Workers : ScanFail(w)

Spec == Init /\ [][Next]_vars

\* ------------------------------------- a database that already has a backlog
\* hours since the incident of the backlog database was created
BacklogAge == 5

\* the priorities the incident of the backlog database was created with:
\* after BacklogAge hours both deadlines have passed, or the response deadline
BacklogPriorities == {"CRITICAL", "HIGH"}

\* the SLA statuses a stored row of the backlog database may carry
BacklogStatuses == {"ACTIVE", "PAUSED"}

\* One incident was created BacklogAge hours ago and nobody has resolved it.
\* Its SLA row is the one create_incident wrote, or the same row with the
\* status column holding PAUSED (the column admits it; paused_at is then set).
BacklogInit ==
    /\ settings = DefaultSettings
    /\ now = BacklogAge
    /\ ticks = 0
    /\ \E p \in BacklogPriorities, st \in BacklogStatuses :
          /\ incidents = [k \in {1} |-> NewIncident(p, "u1")]
          /\ slas = [k \in {1} |->
                       [ NewSLA(1, 0, get_sla_deadlines(settings,
                                                        PriorityValue(p)))
                           EXCEPT !.status = st,
                                  !.paused_at = IF st = "PAUSED"
                                                THEN Some(0) ELSE None ]]
    /\ creating = None
    /\ scan = [w \in Workers |-> IdleScan]
    /\ runs = << >>
    /\ notifications = {}
    /\ lookup = None
    /\ detected = {}
    /\ reply = None
    /\ warnings = << >>

BacklogNext ==
    \/ Tick
    \/ \E i \in IncidentIds, d \in UpdateInputs : update_incident(i, d)
    \/ \E i \in IncidentIds, u \in Users : assign_incident(i, u)
    \/ \E i \in IncidentIds, st \in IncidentStatuses : update_status(i, st)
    \/ \E i \in IncidentIds : delete_incident(i)
    \/ \E w \in Workers : ScanBegin(w)
    \/ \E w \in Workers : ScanStep(w)
    \/ \E w \in Workers : ScanCommit(w)
    \/ \E w \in Workers : ScanFail(w)

BacklogSpec == BacklogInit /\ [][BacklogNext]_vars

\* ------------------------------------ one operation or scan at a time
\* no create_incident and no breach scan is under way
Quiet == creating = None /\ \A w \in Workers : scan[w].pc = "idle"

\* the operations of Next, each started only when nothing else is under way
SeqNext ==
    \/ Quiet /\ Tick
    \/ Quiet /\ CreateFlush
    \/ CreateCommit
    \/ CreateCrash
    \/ Quiet /\ \E i \in IncidentIds, d \in UpdateInputs :
                    update_incident(i, d)
    \/ Quiet /\ \E i \in IncidentIds, u \in Users : assign_incident(i, u)
    \/ Quiet /\ \E i \in IncidentIds, st \in IncidentStatuses :
                    update_status(i, st)
    \/ Quiet /\ \E i \in IncidentIds : delete_incident(i)
    \/ Quiet /\ \E w \in Workers : ScanBegin(w)
    \/ \E w \in Workers : ScanStep(w)
    \/ \E w \in Workers : ScanCommit(w)
    \/ \E w \in Workers : ScanFail(w)

SeqSpec == Init /\ [][SeqNext]_vars

\* ------------------------------------------- the service, without the scans
ServiceNext ==
    \/ Tick
    \/ CreateFlush
    \/ CreateCommit
    \/ CreateCrash
    \/ \E i \in IncidentIds, d \in UpdateInputs : update_incident(i, d)
    \/ \E i \in IncidentIds, u \in Users : assign_incident(i, u)
    \/ \E i \in IncidentIds, st \in IncidentStatuses : update_status(i, st)
    \/ \E i \in IncidentIds : delete_incident(i)
    \/ \E op \in ServiceOps, i \in RequestIds : NotFound(op, i)

ServiceSpec == Init /\ [][ServiceNext]_vars

\* -------------------------------------- the warning scan over one incident
\* hours since the incident of the warning database was created
WarnAges == {0, 3}

\* the SLA row create_incident wrote at hour 0 for an incident of priority p
WarnSLA(p) == NewSLA(1, 0, get_sla_deadlines(settings, PriorityValue(p)))

\* One unresolved incident was created as CRITICAL or HIGH some hours ago;
\* its SLA row is the one create_incident wrote, or, when the response
\* deadline has passed, that row as a breach scan marked it an hour ago.
WarnInit ==
    /\ settings = DefaultSettings
    /\ now \in WarnAges
    /\ ticks = 0
    /\ \E p \in {"CRITICAL", "HIGH"}, marked \in BOOLEAN :
          /\ marked => WarnSLA(p).response_deadline < now - 1
          /\ incidents = [k \in {1} |-> NewIncident(p, "u1")]
          /\ slas = [k \in {1} |->
                       IF marked THEN MarkBreached(WarnSLA(p), now - 1)
                       ELSE WarnSLA(p)]
    /\ creating = None
    /\ scan = [w \in Workers |-> IdleScan]
    /\ runs = << >>
    /\ notifications = {}
    /\ lookup = None
    /\ detected = {}
    /\ reply = None
    /\ warnings = << >>

WarnNext ==
    \/ Tick
    \/ \E i \in IncidentIds, d \in UpdateInputs : update_incident(i, d)
    \/ \E i \in IncidentIds : update_status(i, "RESOLVED")
    \/ \E i \in IncidentIds : delete_incident(i)
    \/ \E sec \in WarnSeconds : check_approaching_deadlines(sec)
    \/ \E sec \in WarnSeconds : WarningScanFail(sec)

WarnSpec == WarnInit /\ [][WarnNext]_vars

\* ------------------------------------------ a database with two incidents
\* hours since the two incidents of the batch database were created
BatchAge == 4

\* the primary keys of the two incidents
BatchIds == {1, 2}

\* the SLA row create_incident wrote for incident k, created at hour 0 with
\* priority p, its response_at column holding r
BatchSLA(k, p, r) ==
    [ NewSLA(k, 0, get_sla_deadlines(settings, PriorityValue(p)))
        EXCEPT !.response_at = r ]

\* Two unassigned incidents were created BatchAge hours ago.  The first is
\* CRITICAL or HIGH and its SLA row may carry a response_at (the column
\* admits it); the second is CRITICAL or LOW.
BatchInit ==
    /\ settings = DefaultSettings
    /\ now = BatchAge
    /\ ticks = 0
    /\ \E p1 \in {"CRITICAL", "HIGH"}, p2 \in {"CRITICAL", "LOW"},
          r1 \in {None, Some(0)} :
          /\ incidents = [k \in BatchIds |->
                            NewIncident(IF k = 1 THEN p1 ELSE p2, "u1")]
          /\ slas = [k \in BatchIds |->
                       IF k = 1 THEN BatchSLA(k, p1, r1)
                       ELSE BatchSLA(k, p2, None)]
    /\ creating = None
    /\ scan = [w \in Workers |-> IdleScan]
    /\ runs = << >>
    /\ notifications = {}
    /\ lookup = None
    /\ detected = {}
    /\ reply = None
    /\ warnings = << >>

BatchNext ==
    \/ Tick
    \/ \E i \in BatchIds, u \in Users : assign_incident(i, u)
    \/ \E i \in BatchIds : update_status(i, "RESOLVED")
    \/ \E w \in Workers : ScanBegin(w)
    \/ \E w \in Workers : ScanStep(w)
    \/ \E w \in Workers : ScanCommit(w)
    \/ \E w \in Workers : ScanFail(w)

BatchSpec == BatchInit /\ [][BatchNext]_vars

\* ------------------------------------ the breach scan under fair scheduling
\* every operation except a failing scan
FairNext ==
    \/ Tick
    \/ CreateFlush
    \/ CreateCommit
    \/ CreateCrash
    \/ \E i \in IncidentIds, d \in UpdateInputs : update_incident(i, d)
    \/ \E i \in IncidentIds, u \in Users : assign_incident(i, u)
    \/ \E i \in IncidentIds, st \in IncidentStatuses : update_status(i, st)
    \/ \E i \in IncidentIds : delete_incident(i)
    \/ \E w \in Workers : ScanBegin(w)
    \/ \E w \in Workers : ScanStep(w)
    \/ \E w \in Workers : ScanCommit(w)

\* celery beat keeps sending check_sla_breaches, and a worker that has taken
\* the task runs its loop and its commit to the end
Fairness ==
    /\ WF_vars(\E w \in Workers : ScanBegin(w))
    /\ \A w \in Workers : WF_vars(ScanStep(w))
    /\ \A w \in Workers : WF_vars(ScanCommit(w))

FairSpec == Init /\ [][FairNext]_vars /\ Fairness

\* ------------------------------------------- the policy table, on its own
\* Settings() as loaded from an environment that overrides every SLA default
OverriddenSettings ==
    [ sla_critical_response |-> 2, sla_critical_resolution |-> 6,
      sla_high_response |-> 3, sla_high_resolution |-> 12,
      sla_medium_response |-> 5, sla_medium_resolution |-> 48,
      sla_low_response |-> 12, sla_low_resolution |-> 96 ]

\* every spelling of w in upper- and lower-case letters
CaseVariants(w) ==
    { [i \in DOMAIN w |-> IF i \in m THEN UpperChar(w[i]) ELSE w[i]] :
        m \in SUBSET DOMAIN w }

\* arguments that name no priority
OtherStrings ==
    { << >>, <<"u", "r", "g", "e", "n", "t">>, <<"l", "o">>,
      <<"m", "e", "d", "i", "u", "m", "m">>, <<"h", "i", "g", "h", " ">>,
      <<"p", "1">>, <<"L", "O", "W", "E", "R">>, <<"c", "r", "i", "t">>,
      <<" ", "l", "o", "w">>, <<"n", "o", "n", "e">> }

\* the arguments offered to get_sla_deadlines
PolicyInputs ==
    CaseVariants(Str_critical) \cup CaseVariants(Str_high)
        \cup CaseVariants(Str_medium) \cup CaseVariants(Str_low)
        \cup OtherStrings

PolicyInit ==
    /\ settings \in {DefaultSettings, OverriddenSettings}
    /\ now = 0
    /\ ticks = 0
    /\ incidents = << >>
    /\ slas = << >>
    /\ creating = None
    /\ scan = [w \in Workers |-> IdleScan]
    /\ runs = << >>
    /\ notifications = {}
    /\ \E s \in PolicyInputs : lookup = Some([priority |-> s, result |-> None])
    /\ detected = {}
    /\ reply = None
    /\ warnings = << >>

\* one call settings.get_sla_deadlines(priority)
Lookup ==
    /\ lookup # None
    /\ lookup[1].result = None
    /\ lookup' = Some([ lookup[1] EXCEPT !.result =
                          Some(get_sla_deadlines(settings, lookup[1].priority)) ])
    /\ UNCHANGED << settings, now, ticks, incidents, slas, creating, scan,
                    runs, notifications, detected, reply, warnings >>

PolicyNext == Lookup

PolicySpec == PolicyInit /\ [][PolicyNext]_vars

\* ------------------------------------------------------------------ claims
\* the default policy as the specification states it: priority -> hours
DefaultHours(p) ==
    CASE p = "CRITICAL" -> [response_hours |-> 1, resolution_hours |-> 4]
      [] p = "HIGH" -> [response_hours |-> 4, resolution_hours |-> 24]
      [] p = "MEDIUM" -> [response_hours |-> 8, resolution_hours |-> 72]
      [] p = "LOW" -> [response_hours |-> 24, resolution_hours |-> 168]

\* the BREACH notifications run r emitted
BreachNotified(r) ==
    { n.incident : n \in { m \in notifications :
                             m.kind = "BREACH" /\ m.run = r } }

C2_NoDoubleNotification ==
    \A r1, r2 \in DOMAIN runs :
        (/\ r1 # r2
         /\ runs[r1] = "success"
         /\ runs[r2] = "success")
        => BreachNotified(r1) \cap BreachNotified(r2) = {}

\* C3: a step that sets resolved_at (resolving the incident) sets the SLA to
\* MET when the time is at or before the resolution deadline, and otherwise
\* does not set it to MET and leaves an ACTIVE SLA ACTIVE.
C3_ResolveMetOnlyOnTime ==
    [][ \A i \in DOMAIN incidents : \A s \in SlasOf(slas, i) :
          (~IsSet(incidents[i].resolved_at) /\ IsSet(incidents'[i].resolved_at))
          => IF now <= slas[s].resolution_deadline
             THEN slas'[s].status = "MET"
             ELSE /\ slas'[s].status # "MET"
                  /\ (slas[s].status = "ACTIVE" => slas'[s].status = "ACTIVE")
      ]_vars

\* C4: an SLA whose status is BREACHED keeps that status in every step, so
\* it never becomes MET.
C4_BreachedStaysBreached ==
    [][ \A s \in DOMAIN slas :
          slas[s].status = "BREACHED" => slas'[s].status = "BREACHED" ]_vars

\* C5: every step that adds an incident adds it with status OPEN and no
\* assignee, together with an SLA for it that is ACTIVE, has its deadlines
\* at the creation time plus the response and resolution hours of the
\* incident's priority, and has response_at, paused_at and
\* breach_notified_at unset.
C5_CreateIncidentResult ==
    [][ \A i \in (DOMAIN incidents') \ (DOMAIN incidents) :
          /\ incidents'[i].status = "OPEN"
          /\ incidents'[i].assignee_id = NoUser
          /\ \E s \in (DOMAIN slas') \ (DOMAIN slas) :
                /\ slas'[s].incident_id = i
                /\ slas'[s].status = "ACTIVE"
                /\ slas'[s].response_deadline =
                      now + DefaultHours(incidents'[i].priority).response_hours
                /\ slas'[s].resolution_deadline =
                      now + DefaultHours(incidents'[i].priority).resolution_hours
                /\ slas'[s].response_at = None
                /\ slas'[s].paused_at = None
                /\ slas'[s].breach_notified_at = None
      ]_vars

\* C5 witness: an incident created with priority LOW after the clock has
\* advanced, its SLA carrying the two deadlines of that creation time.
C5_Witness ==
    /\ now > 0
    /\ \E i \in DOMAIN incidents : \E s \in SlasOf(slas, i) :
          /\ incidents[i].status = "OPEN"
          /\ slas[s].response_deadline = now + 24
          /\ slas[s].resolution_deadline = now + 168

\* C6: in the committed rows every incident has exactly one SLA and every
\* SLA references an existing incident, whether create_incident committed
\* or was abandoned between adding the incident and adding the SLA.
C6_IncidentSlaOneToOne ==
    /\ \A i \in DOMAIN incidents : Cardinality(SlasOf(slas, i)) = 1
    /\ \A s \in DOMAIN slas : slas[s].incident_id \in DOMAIN incidents

\* C6 witness: a create_incident has flushed its incident and not yet added
\* the SLA; the committed rows hold neither.
C6_Witness ==
    /\ creating # None
    /\ creating[1].id \notin DOMAIN incidents
    /\ SlasOf(slas, creating[1].id) = {}

\* the hours the policy is said to give for argument s under configuration
\* cfg: by case-insensitive name, anything else as medium
PolicyHours(cfg, s) ==
    IF s \in CaseVariants(Str_critical)
    THEN [response_hours |-> cfg.sla_critical_response,
          resolution_hours |-> cfg.sla_critical_resolution]
    ELSE IF s \in CaseVariants(Str_high)
    THEN [response_hours |-> cfg.sla_high_response,
          resolution_hours |-> cfg.sla_high_resolution]
    ELSE IF s \in CaseVariants(Str_low)
    THEN [response_hours |-> cfg.sla_low_response,
          resolution_hours |-> cfg.sla_low_resolution]
    ELSE [response_hours |-> cfg.sla_medium_response,
          resolution_hours |-> cfg.sla_medium_resolution]

\* the priority a string names, when it names one in some letter case
NamedPriority(s) ==
    { p \in IncidentPriorities : s \in CaseVariants(PriorityValue(p)) }

\* C7: every get_sla_deadlines call returns a result; for a spelling of
\* critical, high, medium or low in any letter case it is that priority's
\* configured hours (1/4, 4/24, 8/72, 24/168 under the defaults), for any
\* other string it is the medium hours.
C7_PolicyLookup ==
    (lookup # None /\ IsSet(lookup[1].result)) =>
        LET arg == lookup[1].priority
            res == lookup[1].result[1]
        IN  /\ res = PolicyHours(settings, arg)
            /\ res.response_hours \in Nat /\ res.resolution_hours \in Nat
            /\ settings = DefaultSettings =>
                  /\ \A p \in NamedPriority(arg) : res = DefaultHours(p)
                  /\ NamedPriority(arg) = {} => res = DefaultHours("MEDIUM")

\* C7 witness: the lookup of an upper-case HIGH has returned the hours of
\* high, and the lookup of an unknown name the hours of medium.
C7_Witness ==
    /\ lookup # None
    /\ IsSet(lookup[1].result)
    /\ settings = DefaultSettings
    /\ lookup[1].priority = <<"H", "I", "G", "H">>
    /\ lookup[1].result[1] = [response_hours |-> 4, resolution_hours |-> 24]

\* C8: in every step, an incident's resolved_at that is set keeps its value
\* and an incident's closed_at that is set keeps its value.
C8_ResolvedAtClosedAtKept ==
    [][ \A i \in DOMAIN incidents :
          /\ IsSet(incidents[i].resolved_at)
                => incidents'[i].resolved_at = incidents[i].resolved_at
          /\ IsSet(incidents[i].closed_at)
                => incidents'[i].closed_at = incidents[i].closed_at ]_vars

\* C8 witness: an incident that was resolved and closed earlier is RESOLVED
\* again at a later time, with the earlier timestamps still there.
C8_Witness ==
    \E i \in DOMAIN incidents :
        /\ incidents[i].status = "RESOLVED"
        /\ IsSet(incidents[i].resolved_at)
        /\ IsSet(incidents[i].closed_at)
        /\ incidents[i].resolved_at[1] < now
        /\ incidents[i].closed_at[1] < now

\* C9: update_status(RESOLVED) on an incident that is RESOLVED with
\* resolved_at set (the state a first call leaves) changes neither
\* resolved_at nor the status nor any SLA.
C9_ResolveTwiceIsNoop ==
    [][ \A i \in IncidentIds :
          (/\ update_status(i, "RESOLVED")
           /\ incidents[i].status = "RESOLVED"
           /\ IsSet(incidents[i].resolved_at))
          => /\ incidents'[i].resolved_at = incidents[i].resolved_at
             /\ incidents'[i].status = incidents[i].status
             /\ slas' = slas ]_vars

\* C9 witness: a live incident that a first call left RESOLVED with
\* resolved_at set, whose SLA a scan has since written BREACHED, so that a
\* second update_status(RESOLVED) would show if it touched the SLA again.
C9_Witness ==
    \E i \in DOMAIN incidents : \E s \in SlasOf(slas, i) :
        /\ get_incident(incidents, i) # None
        /\ incidents[i].status = "RESOLVED"
        /\ IsSet(incidents[i].resolved_at)
        /\ slas[s].status = "BREACHED"

\* C10: an incident whose status is RESOLVED has resolved_at set, and an
\* incident whose status is CLOSED has closed_at set.
C10_StatusHasTimestamp ==
    \A i \in DOMAIN incidents :
        /\ incidents[i].status = "RESOLVED" => IsSet(incidents[i].resolved_at)
        /\ incidents[i].status = "CLOSED" => IsSet(incidents[i].closed_at)

\* the incidents for which some execution has emitted a BREACH notification
EverNotified(notes) == { n.incident : n \in { m \in notes : m.kind = "BREACH" } }

\* C11: no step changes the response_deadline or the resolution_deadline of
\* an SLA row that exists: not update_incident (a new priority included), not
\* assign_incident, update_status, delete_incident, nor the breach scan.
C11_DeadlinesNeverChange ==
    [][ \A s \in DOMAIN slas :
            /\ s \in DOMAIN slas'
            /\ slas'[s].response_deadline = slas[s].response_deadline
            /\ slas'[s].resolution_deadline = slas[s].resolution_deadline ]_vars

\* C11 witness: an incident created as CRITICAL (response deadline within
\* an hour of a clock value) has had its priority changed to LOW, was
\* assigned, resolved, marked by the scan and deleted.
C11_Witness ==
    \E i \in DOMAIN incidents : \E s \in SlasOf(slas, i) :
        /\ incidents[i].priority = "LOW"
        /\ slas[s].response_deadline < DefaultSettings.sla_low_response
        /\ incidents[i].assignee_id # NoUser
        /\ IsSet(incidents[i].resolved_at)
        /\ IsSet(slas[s].breach_notified_at)
        /\ IsSet(incidents[i].deleted_at)

\* C12: once breach_notified_at of an SLA is set, no step clears it or
\* gives it another value.
C12_BreachNotifiedAtKept ==
    [][ \A s \in DOMAIN slas :
            IsSet(slas[s].breach_notified_at) =>
                /\ s \in DOMAIN slas'
                /\ slas'[s].breach_notified_at = slas[s].breach_notified_at
      ]_vars

\* C13: an SLA that is BREACHED has breach_notified_at set to a time
\* strictly after its response deadline or strictly after its resolution
\* deadline; a step that makes an SLA BREACHED is the commit of a breach scan
\* and finds the SLA ACTIVE.
C13_BreachedOnlyFromActive ==
    [][ \A s \in DOMAIN slas' :
            /\ slas'[s].status = "BREACHED" =>
                  /\ IsSet(slas'[s].breach_notified_at)
                  /\ \/ slas'[s].breach_notified_at[1]
                            > slas'[s].response_deadline
                     \/ slas'[s].breach_notified_at[1]
                            > slas'[s].resolution_deadline
            /\ ( /\ s \in DOMAIN slas
                 /\ slas[s].status # "BREACHED"
                 /\ slas'[s].status = "BREACHED" ) =>
                  /\ slas[s].status = "ACTIVE"
                  /\ \E w \in Workers :
                        scan[w].pc = "loop" /\ s \in scan[w].dirty
                            /\ scan'[w].pc = "idle" ]_vars

\* C14: a breach scan that runs its query while an incident is soft-deleted
\* does not select that incident's SLA (so it neither marks it BREACHED nor
\* emits a BREACH notification for it).
C14_ScanSkipsDeleted ==
    [][ \A w \in Workers :
            (scan[w].pc = "idle" /\ scan'[w].pc = "loop") =>
                \A r \in scan'[w].results :
                    ~IsSet(incidents[r.incident].deleted_at) ]_vars

\* C15: an SLA whose status is PAUSED is in no breach scan's candidate list
\* and among no scan's marked rows, carries no breach_notified_at, and no
\* BREACH notification exists for its incident, whatever the clock shows.
C15_PausedNeverSelected ==
    \A s \in DOMAIN slas :
        slas[s].status = "PAUSED" =>
            /\ ~IsSet(slas[s].breach_notified_at)
            /\ slas[s].incident_id \notin EverNotified(notifications)
            /\ \A d \in detected : d.sla # s
            /\ \A w \in Workers :
                  /\ s \notin scan[w].dirty
                  /\ \A r \in scan[w].results : r.sla # s

\* C15 witness: a PAUSED SLA whose two deadlines have passed, its incident
\* assigned and unresolved, after a breach scan has returned success.
C15_Witness ==
    \E s \in DOMAIN slas :
        /\ slas[s].status = "PAUSED"
        /\ slas[s].response_deadline < now
        /\ slas[s].resolution_deadline < now
        /\ incidents[slas[s].incident_id].assignee_id # NoUser
        /\ ~IsSet(incidents[slas[s].incident_id].resolved_at)
        /\ ~IsSet(incidents[slas[s].incident_id].deleted_at)
        /\ \E r \in DOMAIN runs : runs[r] = "success"

\* the table without the row of incident i
WithoutRow(rows, i) == [k \in DOMAIN rows \ {i} |-> rows[k]]

\* incident i is invisible to the reads: get_incident finds nothing, and
\* every list_incidents call returns the items and the total it would return
\* if the row were not in the table
HiddenFromReads(rows, i) ==
    /\ get_incident(rows, i) = None
    /\ \A q \in ListInputs :
          LET listed == list_incidents(rows, q) IN
              /\ listed = list_incidents(WithoutRow(rows, i), q)
              /\ \A k \in DOMAIN listed.incidents : listed.incidents[k] # i

\* C16: a soft-deleted incident is invisible to get_incident and to
\* list_incidents under every filter, items and total (the reads depend on
\* table incidents only, so they are looked at after every step that writes
\* the table); the step that deletes it keeps the incident row, changing
\* deleted_at only, and keeps every SLA row.
C16_DeleteHidesAndKeeps ==
    [][ \A i \in DOMAIN incidents' :
            /\ (incidents' # incidents /\ IsSet(incidents'[i].deleted_at)) =>
                  HiddenFromReads(incidents', i)
            /\ ( /\ i \in DOMAIN incidents
                 /\ ~IsSet(incidents[i].deleted_at)
                 /\ IsSet(incidents'[i].deleted_at) ) =>
                  /\ incidents' = [incidents EXCEPT
                                     ![i].deleted_at = incidents'[i].deleted_at]
                  /\ slas' = slas
                  /\ SlasOf(slas', i) # {} ]_vars

\* C16 witness: an assigned incident with its SLA has been soft-deleted.
C16_Witness ==
    \E i \in DOMAIN incidents :
        /\ IsSet(incidents[i].deleted_at)
        /\ incidents[i].assignee_id # NoUser
        /\ SlasOf(slas, i) # {}

\* resolved_at of incident i is set and lies before both deadlines of s
ResolvedOnTime(inc_rows, sla_rows, i, s) ==
    /\ IsSet(inc_rows[i].resolved_at)
    /\ inc_rows[i].resolved_at[1] < sla_rows[s].response_deadline
    /\ inc_rows[i].resolved_at[1] < sla_rows[s].resolution_deadline

\* C17: resolved_at is set by update_status only, to the time of the call;
\* whenever it lies before both deadlines, in the state the call produces and
\* in every later one, the SLA is MET and no BREACH notification exists for
\* the incident.
C17_OnTimeStaysMet ==
    [][ \A i \in DOMAIN incidents' :
            /\ ( \/ i \notin DOMAIN incidents
                 \/ incidents'[i].resolved_at # incidents[i].resolved_at ) =>
                  \/ ~IsSet(incidents'[i].resolved_at)
                  \/ /\ i \in DOMAIN incidents
                     /\ incidents'[i].resolved_at = Some(now)
                     /\ update_status(i, "RESOLVED")
            /\ \A s \in SlasOf(slas', i) :
                  ResolvedOnTime(incidents', slas', i, s) =>
                      /\ slas'[s].status = "MET"
                      /\ i \notin EverNotified(notifications') ]_vars

\* C17 witness: an assigned incident resolved before both deadlines has been
\* reopened, and a breach scan that read the clock after both deadlines has
\* gone through its candidate list.
C17_Witness ==
    \E i \in DOMAIN incidents : \E s \in SlasOf(slas, i) :
        /\ ResolvedOnTime(incidents, slas, i, s)
        /\ incidents[i].status = "OPEN"
        /\ incidents[i].assignee_id # NoUser
        /\ \E w \in Workers :
              /\ scan[w].pc = "loop"
              /\ scan[w].results = {}
              /\ scan[w].now > slas[s].resolution_deadline

\* the SLA s of incident i is overdue: the incident is not deleted, the SLA
\* is ACTIVE, and the response deadline has passed with no response recorded
\* or the resolution deadline has passed with the incident unresolved
Overdue(i, s) ==
    /\ i \in DOMAIN incidents /\ s \in SlasOf(slas, i)
    /\ ~IsSet(incidents[i].deleted_at)
    /\ slas[s].status = "ACTIVE"
    /\ \/ (~IsSet(slas[s].response_at) /\ slas[s].response_deadline < now)
       \/ (slas[s].resolution_deadline < now
              /\ ~IsSet(incidents[i].resolved_at))

\* C18: under fair scheduling of the breach scan and with no scan failing,
\* an overdue SLA, as long as an execution of the scan is still to be
\* started, leads to the SLA being BREACHED or to the incident being resolved.
C18_OverdueLeadsToBreached ==
    \A i \in IncidentIds : \A s \in 1..MaxIncidents :
        (Overdue(i, s) /\ Len(runs) < MaxRuns)
            ~> ( /\ i \in DOMAIN incidents /\ s \in DOMAIN slas
                 /\ \/ slas[s].status = "BREACHED"
                    \/ IsSet(incidents[i].resolved_at) )

\* C18 witness: an SLA that was overdue has been marked BREACHED by a scan
\* that returned success, its incident neither resolved nor deleted.
C18_Witness ==
    \E i \in DOMAIN incidents : \E s \in SlasOf(slas, i) :
        /\ slas[s].status = "BREACHED"
        /\ IsSet(slas[s].breach_notified_at)
        /\ ~IsSet(incidents[i].resolved_at)
        /\ ~IsSet(incidents[i].deleted_at)
        /\ \E d \in detected : d.sla = s /\ runs[d.run] = "success"

\* C19: assign_incident sets the assignee; an OPEN incident becomes
\* IN_PROGRESS, with nothing else changed; an incident in any other status
\* has only its assignee changed, and no SLA row is written.
C19_AssignEffect ==
    [][ \A i \in IncidentIds, u \in Users :
            assign_incident(i, u) =>
                /\ incidents'[i].assignee_id = u
                /\ (incidents'[i].status # incidents[i].status) <=>
                      (incidents[i].status = "OPEN")
                /\ incidents[i].status = "OPEN" =>
                      incidents'[i].status = "IN_PROGRESS"
                /\ incidents' = [incidents EXCEPT
                                   ![i].assignee_id = incidents'[i].assignee_id,
                                   ![i].status = incidents'[i].status]
                /\ slas' = slas ]_vars

\* C19 witness: a CLOSED incident, resolved and closed while it had no
\* assignee (its status never passed through assign_incident), has one now.
C19_Witness ==
    \E i \in DOMAIN incidents :
        /\ incidents[i].status = "CLOSED"
        /\ IsSet(incidents[i].resolved_at)
        /\ IsSet(incidents[i].closed_at)
        /\ incidents[i].assignee_id # NoUser
        /\ \E s \in SlasOf(slas, i) : slas[s].status = "MET"

\* the rows execution r counted whose incident had no assignee in its query
Unassigned(rows, r) == { d \in rows : d.run = r /\ d.assignee = NoUser }

C21_FailureKeepsEarlierWork ==
    [][ \A w \in Workers :
            ( /\ scan[w].pc = "loop" /\ scan[w].results # {}
              /\ scan'[w].pc = "idle" ) =>
                \A s \in scan[w].dirty :
                    /\ slas'[s].status = "BREACHED"
                    /\ IsSet(slas'[s].breach_notified_at) ]_vars

\* the id is unknown or names a soft-deleted incident
Missing(rows, i) == i \notin DOMAIN rows \/ IsSet(rows[i].deleted_at)

\* C22: for an id that is unknown or soft-deleted, get_incident returns None
\* and no step writes the incident row or an SLA row of that incident; a call
\* that returns the not-found outcome (False from delete_incident, None from
\* the others) was made for such an id and changes no incident and no SLA.
C22_NotFoundChangesNothing ==
    [][ /\ \A i \in RequestIds :
              Missing(incidents, i) =>
                  /\ get_incident(incidents, i) = None
                  /\ i \in DOMAIN incidents =>
                        /\ incidents'[i] = incidents[i]
                        /\ \A s \in SlasOf(slas, i) : slas'[s] = slas[s]
        /\ reply' # reply =>
              /\ IsSet(reply')
              /\ Missing(incidents, reply'[1].incident_id)
              /\ reply'[1].outcome =
                    (IF reply'[1].op = "delete_incident" THEN "False"
                     ELSE "None")
              /\ incidents' = incidents
              /\ slas' = slas ]_vars

\* C22 witness: delete_incident was called a second time, at a later hour
\* than the first, on a deleted incident and returned False.
C22_Witness ==
    /\ IsSet(reply)
    /\ reply[1].op = "delete_incident"
    /\ reply[1].outcome = "False"
    /\ reply[1].incident_id \in DOMAIN incidents
    /\ IsSet(incidents[reply[1].incident_id].deleted_at)
    /\ incidents[reply[1].incident_id].deleted_at[1] < now

\* C23: whenever a BREACH notification has been emitted for an incident, the
\* SLA row of that incident in the database has breach_notified_at set.
C23_EmittedOnlyAfterCommit ==
    \A n \in notifications :
        n.kind = "BREACH" =>
            \A s \in SlasOf(slas, n.incident) :
                IsSet(slas[s].breach_notified_at)

\* C24: no step changes the stored status of an SLA from MET to BREACHED,
\* and a step that emits a BREACH notification for an incident finds the
\* stored status of its SLA ACTIVE.
C24_ScanSerializesWithResolve ==
    [][ /\ \A s \in DOMAIN slas :
              slas[s].status = "MET" => slas'[s].status # "BREACHED"
        /\ \A n \in notifications' \ notifications :
              n.kind = "BREACH" =>
                  \A s \in SlasOf(slas, n.incident) :
                      slas[s].status = "ACTIVE" ]_vars

\* C30: a step never changes an SLA status that is MET, and never changes an
\* SLA status that is not ACTIVE to ACTIVE.
C30_StatusMovesForward ==
    [][ \A s \in DOMAIN slas :
            /\ slas[s].status = "MET" => slas'[s].status = "MET"
            /\ slas[s].status # "ACTIVE" => slas'[s].status # "ACTIVE" ]_vars

\* the SLAs the claim describes at clock reading t: ACTIVE, not yet notified,
\* and past the response deadline with no response or past the resolution
\* deadline with the incident unresolved
Breaching(t) ==
    { s \in DOMAIN slas :
        /\ slas[s].status = "ACTIVE"
        /\ ~IsSet(slas[s].breach_notified_at)
        /\ \/ /\ ~IsSet(slas[s].response_at)
              /\ slas[s].response_deadline < t
           \/ /\ slas[s].resolution_deadline < t
              /\ ~IsSet(incidents[slas[s].incident_id].resolved_at) }

\* the SLAs a scan session holds: still in its list or already marked
Held(sc) == { r.sla : r \in sc.results } \cup sc.dirty

\* C25: the query of a breach scan that reads the clock at now selects
\* exactly the SLAs that are breaching at now; the loop keeps that set; the
\* commit of a successful run sets status BREACHED and breach_notified_at =
\* that now on exactly those SLA rows, changes no other SLA column, no other
\* SLA and no incident, and the run reports their number as breaches_detected.
C25_ScanEffect ==
    [][ \A w \in Workers :
            /\ (scan[w].pc = "idle" /\ scan'[w].pc = "loop") =>
                  /\ scan'[w].now = now
                  /\ Held(scan'[w]) = Breaching(now)
            /\ (scan[w].pc = "loop" /\ scan'[w].pc = "loop") =>
                  Held(scan'[w]) = Held(scan[w])
            /\ ( /\ scan[w].pc = "loop" /\ scan'[w].pc = "idle"
                 /\ runs'[scan[w].run] = "success" ) =>
                  /\ scan[w].results = {}
                  /\ \A s \in DOMAIN slas :
                        slas'[s] =
                            IF s \in Held(scan[w])
                            THEN [slas[s] EXCEPT
                                    !.status = "BREACHED",
                                    !.breach_notified_at = Some(scan[w].now)]
                            ELSE slas[s]
                  /\ DOMAIN slas' = DOMAIN slas
                  /\ incidents' = incidents
                  /\ ScanResult(detected', notifications', scan[w].run)
                        .breaches_detected = Cardinality(Held(scan[w])) ]_vars

\* C25 witness: a run has returned success having counted one SLA, now
\* BREACHED, while the other SLA, not past a deadline, is still ACTIVE.
C25_Witness ==
    \E r \in DOMAIN runs : \E d \in detected :
        /\ runs[r] = "success"
        /\ d.run = r
        /\ ScanResult(detected, notifications, r).breaches_detected = 1
        /\ slas[d.sla].status = "BREACHED"
        /\ \E s \in DOMAIN slas :
              /\ s # d.sla
              /\ slas[s].status = "ACTIVE"
              /\ ~IsSet(slas[s].breach_notified_at)

\* C26: every BREACH notification carries breach type Response when the
\* SLA's response_at is unset and Resolution when it is set (response_at
\* unset with both deadlines passed is a case of the first).
C26_BreachType ==
    \A n \in notifications :
        n.kind = "BREACH" =>
            \A s \in SlasOf(slas, n.incident) :
                n.breach_type =
                    (IF IsSet(slas[s].response_at) THEN "Resolution"
                     ELSE "Response")

\* C26 witness: a Resolution notification exists for an SLA with response_at
\* set, and a Response notification for an SLA with response_at unset that
\* was marked after both of its deadlines.
C26_Witness ==
    /\ \E n \in notifications : \E s \in SlasOf(slas, n.incident) :
          /\ n.kind = "BREACH" /\ n.breach_type = "Resolution"
          /\ IsSet(slas[s].response_at)
    /\ \E n \in notifications : \E s \in SlasOf(slas, n.incident) :
          /\ n.kind = "BREACH" /\ n.breach_type = "Response"
          /\ ~IsSet(slas[s].response_at)
          /\ IsSet(slas[s].breach_notified_at)
          /\ slas[s].breach_notified_at[1] > slas[s].response_deadline
          /\ slas[s].breach_notified_at[1] > slas[s].resolution_deadline

\* the length, in hours, of the warning window the claim gives a priority
WindowHours(priority) ==
    IF priority \in {"CRITICAL", "HIGH"} THEN 1 ELSE 4

\* the incidents the claim says a warning scan reading the clock at t
\* seconds warns: an assignee, an ACTIVE SLA, resolved_at unset, and the
\* resolution deadline after t and at most the window later
DueForWarning(t) ==
    { i \in DOMAIN incidents :
        /\ incidents[i].assignee_id # NoUser
        /\ ~IsSet(incidents[i].resolved_at)
        /\ \E s \in SlasOf(slas, i) :
              /\ slas[s].status = "ACTIVE"
              /\ t < slas[s].resolution_deadline * 3600
              /\ slas[s].resolution_deadline * 3600
                    <= t + WindowHours(incidents[i].priority) * 3600 }

\* m is the whole number of minutes in sec seconds, rounded down
FloorMinutes(sec, m) == m * 60 <= sec /\ sec < (m + 1) * 60

\* C27: a warning scan that returns success, having read the clock at t,
\* has emitted one APPROACHING_DEADLINE notification for each incident due
\* for a warning at t and for no other; the minutes it carries are the time
\* from t to the resolution deadline in minutes, rounded down, within
\* 0..60 for CRITICAL and HIGH and 0..240 for MEDIUM and LOW.
C27_WarningSelection ==
    [][ (Len(warnings') = Len(warnings) + 1
            /\ warnings'[Len(warnings')].status = "success") =>
          LET run == warnings'[Len(warnings')] IN
              /\ Seconds(now) <= run.now /\ run.now < Seconds(now + 1)
              /\ { n.incident : n \in run.sent } = DueForWarning(run.now)
              /\ \A n, m \in run.sent : n.incident = m.incident => n = m
              /\ \A n \in run.sent : \A s \in SlasOf(slas, n.incident) :
                    /\ FloorMinutes(slas[s].resolution_deadline * 3600
                                        - run.now,
                                    n.time_remaining_minutes)
                    /\ n.time_remaining_minutes >= 0
                    /\ n.time_remaining_minutes <=
                          WindowHours(incidents[n.incident].priority) * 60
      ]_vars

\* C27 witness: two successful warning scans have warned an incident, one
\* carrying 59 minutes (59 minutes 59 seconds were left), the later one
\* carrying 0 minutes when the incident's priority was MEDIUM or LOW.
C27_Witness ==
    /\ Len(warnings) = 2
    /\ \A k \in DOMAIN warnings : warnings[k].status = "success"
    /\ \E n \in warnings[1].sent :
          /\ n.time_remaining_minutes = 59
          /\ \E s \in SlasOf(slas, n.incident) :
                slas[s].resolution_deadline * 3600 - warnings[1].now = 3599
    /\ \E n \in warnings[2].sent :
          /\ n.time_remaining_minutes = 0
          /\ incidents[n.incident].priority \in {"MEDIUM", "LOW"}

\* C28: an execution of the warning scan changes no incident and no SLA
\* (nor anything else but its own sends); and a successful execution warns
\* again every incident an earlier execution warned that is still due.
C28_WarningScanKeepsState ==
    [][ Len(warnings') = Len(warnings) + 1 =>
          /\ incidents' = incidents
          /\ slas' = slas
          /\ notifications' = notifications
          /\ scan' = scan /\ runs' = runs /\ detected' = detected
          /\ warnings'[Len(warnings')].status = "success" =>
                \A k \in DOMAIN warnings : \A n \in warnings[k].sent :
                    n.incident \in DueForWarning(warnings'[Len(warnings')].now)
                        => \E m \in warnings'[Len(warnings')].sent :
                              m.incident = n.incident ]_vars

\* C28 witness: two successful warning scans, the second at a later clock
\* reading, have both warned the same incident, whose row and SLA row are
\* as create_incident and one assignment left them.
C28_Witness ==
    /\ Len(warnings) = 2
    /\ warnings[1].status = "success" /\ warnings[2].status = "success"
    /\ warnings[1].now < warnings[2].now
    /\ \E n \in warnings[1].sent : \E m \in warnings[2].sent :
          /\ n.incident = m.incident
          /\ incidents[n.incident].status = "OPEN"
          /\ \A s \in SlasOf(slas, n.incident) :
                slas[s].status = "ACTIVE"
                    /\ ~IsSet(slas[s].breach_notified_at)

\* C29: when operations and scans run one at a time, the status of an SLA
\* is MET exactly when resolved_at of its incident is set.
C29_MetIffResolved ==
    \A s \in DOMAIN slas :
        slas[s].status = "MET"
            <=> IsSet(incidents[slas[s].incident_id].resolved_at)

\* C29 witness: an SLA that a scan had marked is MET, its incident resolved
\* and reopened since, and a later scan has returned success.
C29_Witness ==
    \E s \in DOMAIN slas :
        /\ slas[s].status = "MET"
        /\ IsSet(slas[s].breach_notified_at)
        /\ incidents[slas[s].incident_id].status = "OPEN"
        /\ IsSet(incidents[slas[s].incident_id].resolved_at)
        /\ Len(runs) = MaxRuns
        /\ \A r \in DOMAIN runs : runs[r] = "success"

====
